---- MODULE Spec2Model ----
(***************************************************************************)
(* Model of the document access-control handlers of                        *)
(* src/controllers/doc.controller.ts.                                      *)
(*                                                                         *)
(* The store (docs) and the user directory (users) are the external        *)
(* collaborators the handlers await.  The service functions the controller *)
(* imports (doc.service, user.service) are modelled from their documented  *)
(* contract; the handlers are translated from the controller.              *)
(*                                                                         *)
(* Two specifications:                                                     *)
(*   Spec      every handler runs to its response as one step (requests    *)
(*             served one after the other);                                *)
(*   SpecConc  grant / remove / delete requests are served concurrently,   *)
(*             each await of a handler being one atomic step.              *)
(*                                                                         *)
(* Store and directory calls are taken to complete (no persistence         *)
(* failure), except the per-entry findUserById lookups of handleGetAllUser,*)
(* whose rejection the handler catches itself.  A document's name and      *)
(* description are never read by the access-control logic and are left out.*)
(***************************************************************************)
EXTENDS Integers, Sequences, FiniteSets, Bags, TLC

\* ------------------------------------------------------------------ bounds
\* The longest a role array may grow (appends are not deduplicated).
MaxRoleLen == 2

\* The accounts, the document ids the store can hand out, and the places
\* for requests in flight at once.
UserIds == {1, 2}
DocIds == {1}
Slots == {1, 2, 3}

\* enum Role
Admin == "Admin"
readOnly == "readOnly"
readWrite == "readWrite"
GrantableRoles == {readOnly, readWrite}

\* The e-mail address of user u.  Address 0 belongs to nobody: it is the
\* address no account was ever registered with.
EmailOf(u) == <<"mail", u>>
Emails == {EmailOf(u) : u \in UserIds \cup {0}}

NoUserEmail == "User not found"

VARIABLES
  docs,       \* the Document Store: docId -> [adminId, readonly, readWrite]
  created,    \* ids the store has ever handed out (an id is never reused)
  users,      \* the User Directory: ids of the registered users
  deleted,    \* history: documents whose deletion was answered with success
  last,       \* history: the last request served, its response, the store before it
  reqs,       \* SpecConc: the bag of the requests in flight (handler frames)
  staleWrite  \* history, SpecConc: the kinds of role write that ran on a document
              \* deleted after the handler fetched it

vars == <<docs, created, users, deleted, last, reqs, staleWrite>>

\* ------------------------------------------------------- pure helpers
RECURSIVE Filter(_, _)
Filter(s, x) ==
  IF s = <<>> THEN <<>>
  ELSE IF Head(s) = x THEN Filter(Tail(s), x)
  ELSE <<Head(s)>> \o Filter(Tail(s), x)

\* Array.prototype.includes on a role array: membership of the user id (the
\* stored ids and res.locals.userId are taken to compare as the same id).
includes(s, x) == \E i \in 1..Len(s) : s[i] = x

\* The role array of a document that `role` names.
roleArray(doc, role) == IF role = readOnly THEN doc.readonly ELSE doc.readWrite

\* ------------------------------------------------- services (collaborators)
\* An absent result (null) is the empty sequence, a found one a 1-sequence.
getDocById(store, docId) ==
  IF docId \in DOMAIN store THEN <<store[docId]>> ELSE <<>>

findUserByEmail(dir, email) ==
  IF \E u \in dir : EmailOf(u) = email
    THEN <<CHOOSE u \in dir : EmailOf(u) = email>>
    ELSE <<>>

findUserById(dir, id) ==
  IF id \in dir THEN <<[id |-> id, email |-> EmailOf(id)]>> ELSE <<>>

addDoc(store, docId, adminId) ==
  [d \in DOMAIN store \cup {docId} |->
     IF d = docId
       THEN [adminId |-> adminId, readonly |-> <<>>, readWrite |-> <<>>]
       ELSE store[d]]

\* Appends the user id to the role array matching `role`; a field-level
\* update of the stored document, which touches nothing when it is gone.
grantRole(store, docId, userId, role) ==
  IF docId \notin DOMAIN store THEN store
  ELSE IF role = readOnly
    THEN [store EXCEPT ![docId].readonly = Append(@, userId)]
    ELSE [store EXCEPT ![docId].readWrite = Append(@, userId)]

\* Pulls the user id out of the role array matching `role`.
removeRole(store, docId, userId, role) ==
  IF docId \notin DOMAIN store THEN store
  ELSE IF role = readOnly
    THEN [store EXCEPT ![docId].readonly = Filter(@, userId)]
    ELSE IF role = readWrite
      THEN [store EXCEPT ![docId].readWrite = Filter(@, userId)]
      ELSE store

deleteDoc(store, docId) ==
  [d \in DOMAIN store \ {docId} |-> store[d]]

\* The ids of the documents the user owns or holds a role on.
getAllFiles(store, userId) ==
  {d \in DOMAIN store :
     \/ store[d].adminId = userId
     \/ includes(store[d].readonly, userId)
     \/ includes(store[d].readWrite, userId)}

\* --------------------------------------------------------------- state
NoRequest ==
  [op |-> "none", docId |-> 0, userId |-> 0, email |-> <<>>, role |-> "none",
   status |-> 0, error |-> "", pre |-> <<>>, result |-> <<>>, threw |-> {},
   order |-> <<>>]

Init ==
  /\ docs = <<>>
  /\ created = {}
  /\ users = UserIds
  /\ deleted = {}
  /\ last = NoRequest
  /\ reqs = EmptyBag
  /\ staleWrite = {}

\* res.status(status).json(...): the response of the request just served.
Respond(op, docId, userId, email, role, status, error, result, threw) ==
  last' = [op |-> op, docId |-> docId, userId |-> userId, email |-> email,
           role |-> role, status |-> status, error |-> error, pre |-> docs,
           result |-> result, threw |-> threw, order |-> <<>>]

\* ------------------------------------------------------ handleAddDoc
handleAddDoc(adminId) ==
  LET docId == Cardinality(created) + 1 IN
  /\ docId \in DocIds
  /\ docs' = addDoc(docs, docId, adminId)
  /\ created' = created \cup {docId}
  /\ Respond("addDoc", docId, adminId, <<>>, "none", 201, "", <<>>, {})
  /\ UNCHANGED <<users, deleted, reqs, staleWrite>>

\* ------------------------------------------------------ handleGetFiles
\* The role reported for one file (the body of files.map).
\* Mutant of fileRole: the read-write array is looked at first.
fileRole_WriteFirst(file, userId) ==
  IF includes(file.readWrite, userId) THEN readWrite
  ELSE IF includes(file.readonly, userId) THEN readOnly
  ELSE Admin

fileRole(file, userId) ==
  IF includes(file.readonly, userId) THEN readOnly
  ELSE IF includes(file.readWrite, userId) THEN readWrite
  ELSE Admin

filesData(store, userId) ==
  {[docId |-> d, role |-> fileRole(store[d], userId)] :
     d \in getAllFiles(store, userId)}

handleGetFiles(userId) ==
  /\ Respond("getFiles", 0, userId, <<>>, "none", 200, "",
             filesData(docs, userId), {})
  /\ UNCHANGED <<docs, created, users, deleted, reqs, staleWrite>>

\* ------------------------------------------------------ handleGetAllUser
\* data: the read-only entries, then the read-write entries.
mergedData(doc) ==
  [i \in 1..Len(doc.readonly) |-> [role |-> readOnly, roleId |-> doc.readonly[i]]]
  \o
  [i \in 1..Len(doc.readWrite) |-> [role |-> readWrite, roleId |-> doc.readWrite[i]]]

\* One entry's lookup: the e-mail, or the placeholder when findUserById
\* rejects (throws) or finds nobody.
lookupEntry(dir, item, throws) ==
  LET user == IF throws THEN <<>> ELSE findUserById(dir, item.roleId) IN
  IF user = <<>>
    THEN [role |-> item.role, email |-> NoUserEmail]
    ELSE [role |-> item.role, email |-> user[1].email]

\* Promise.all: each lookup, as it completes, settles the slot of its own
\* index; `order` is the order in which the lookups complete.
RECURSIVE settle(_, _, _, _, _)
settle(slots, data, order, dir, threw) ==
  IF order = <<>> THEN slots
  ELSE LET k == Head(order) IN
       settle([slots EXCEPT ![k] = lookupEntry(dir, data[k], k \in threw)],
              data, Tail(order), dir, threw)

\* Mutant of PromiseAll: the results are collected as the lookups complete.
PromiseAll_CompletionOrder(data, order, dir, threw) ==
  [i \in 1..Len(data) |-> lookupEntry(dir, data[order[i]], order[i] \in threw)]

PromiseAll(data, order, dir, threw) ==
  settle([i \in 1..Len(data) |-> [role |-> "pending", email |-> ""]],
         data, order, dir, threw)

\* The completion orders tried for n concurrent lookups: in order, in reverse,
\* and rotated by one.
CompletionOrders(n) ==
  { [i \in 1..n |-> i],
    [i \in 1..n |-> n + 1 - i],
    [i \in 1..n |-> (i % n) + 1] }

\* The lookups that reject: none, or any single one.
ThrowSets(n) == {{}} \cup {{i} : i \in 1..n}

handleGetAllUser(docId, userId, order, threw) ==
  LET doc == getDocById(docs, docId) IN
  /\ IF doc = <<>>
       THEN Respond("getAllUser", docId, userId, <<>>, "none", 404,
                    "No document found", <<>>, {})
       ELSE IF doc[1].adminId # userId
         THEN Respond("getAllUser", docId, userId, <<>>, "none", 403,
                      "UNAUTHORIZED_USER", <<>>, {})
         ELSE last' = [NoRequest EXCEPT
                !.op = "getAllUser", !.docId = docId, !.userId = userId,
                !.status = 200, !.pre = docs, !.threw = threw, !.order = order,
                !.result = PromiseAll(mergedData(doc[1]), order, users, threw)]
  /\ UNCHANGED <<docs, created, users, deleted, reqs, staleWrite>>

\* ------------------------------------------------------ handleNewAccessRole
\* Mutant of handleNewAccessRole: the ownership check is missing.
handleNewAccessRole_NoOwnerCheck(docId, userId, email, role) ==
  LET doc == getDocById(docs, docId)
      newPerson == findUserByEmail(users, email)
  IN
  /\ IF doc = <<>>
       THEN /\ Respond("grantRole", docId, userId, email, role, 404,
                       "INVALID_DOC", <<>>, {})
            /\ UNCHANGED docs
       ELSE IF newPerson = <<>>
         THEN /\ Respond("grantRole", docId, userId, email, role, 404,
                         "EMAIL_NOT_REGISTERED", <<>>, {})
              /\ UNCHANGED docs
         ELSE /\ Len(IF role = readOnly THEN doc[1].readonly
                                        ELSE doc[1].readWrite) < MaxRoleLen
              /\ docs' = grantRole(docs, docId, newPerson[1], role)
              /\ Respond("grantRole", docId, userId, email, role, 200,
                         "", <<>>, {})
  /\ UNCHANGED <<created, users, deleted, reqs, staleWrite>>

handleNewAccessRole(docId, userId, email, role) ==
  LET doc == getDocById(docs, docId)
      newPerson == findUserByEmail(users, email)
  IN
  /\ IF doc = <<>>
       THEN /\ Respond("grantRole", docId, userId, email, role, 404,
                       "INVALID_DOC", <<>>, {})
            /\ UNCHANGED docs
       ELSE IF doc[1].adminId # userId
         THEN /\ Respond("grantRole", docId, userId, email, role, 500,
                         "ACCESS_CHANGE_NOT_ALLOWED", <<>>, {})
              /\ UNCHANGED docs
         ELSE IF newPerson = <<>>
           THEN /\ Respond("grantRole", docId, userId, email, role, 404,
                           "EMAIL_NOT_REGISTERED", <<>>, {})
                /\ UNCHANGED docs
           ELSE /\ Len(IF role = readOnly THEN doc[1].readonly
                                          ELSE doc[1].readWrite) < MaxRoleLen
                /\ docs' = grantRole(docs, docId, newPerson[1], role)
                /\ Respond("grantRole", docId, userId, email, role, 200,
                           "", <<>>, {})
  /\ UNCHANGED <<created, users, deleted, reqs, staleWrite>>

\* ------------------------------------------------------ handleRemoveRole
\* Mutant of handleRemoveRole: the user is pulled out of both role arrays.
handleRemoveRole_BothSets(docId, userId, email, role) ==
  LET doc == getDocById(docs, docId)
      newPerson == findUserByEmail(users, email)
  IN
  /\ IF doc = <<>>
       THEN /\ Respond("removeRole", docId, userId, email, role, 404,
                       "INVALID_DOC", <<>>, {})
            /\ UNCHANGED docs
       ELSE IF doc[1].adminId # userId
         THEN /\ Respond("removeRole", docId, userId, email, role, 500,
                         "ACCESS_CHANGE_NOT_ALLOWED", <<>>, {})
              /\ UNCHANGED docs
         ELSE IF newPerson = <<>>
           THEN /\ Respond("removeRole", docId, userId, email, role, 404,
                           "EMAIL_NOT_REGISTERED", <<>>, {})
                /\ UNCHANGED docs
           ELSE /\ docs' = removeRole(removeRole(docs, docId, newPerson[1], readOnly),
                                      docId, newPerson[1], readWrite)
                /\ Respond("removeRole", docId, userId, email, role, 200,
                           "", <<>>, {})
  /\ UNCHANGED <<created, users, deleted, reqs, staleWrite>>

handleRemoveRole(docId, userId, email, role) ==
  LET doc == getDocById(docs, docId)
      newPerson == findUserByEmail(users, email)
  IN
  /\ IF doc = <<>>
       THEN /\ Respond("removeRole", docId, userId, email, role, 404,
                       "INVALID_DOC", <<>>, {})
            /\ UNCHANGED docs
       ELSE IF doc[1].adminId # userId
         THEN /\ Respond("removeRole", docId, userId, email, role, 500,
                         "ACCESS_CHANGE_NOT_ALLOWED", <<>>, {})
              /\ UNCHANGED docs
         ELSE IF newPerson = <<>>
           THEN /\ Respond("removeRole", docId, userId, email, role, 404,
                           "EMAIL_NOT_REGISTERED", <<>>, {})
                /\ UNCHANGED docs
           ELSE /\ docs' = removeRole(docs, docId, newPerson[1], role)
                /\ Respond("removeRole", docId, userId, email, role, 200,
                           "", <<>>, {})
  /\ UNCHANGED <<created, users, deleted, reqs, staleWrite>>

\* ------------------------------------------------------ handleDeleteDoc
\* Mutant of handleDeleteDoc: success is answered without the deleteDoc call.
handleDeleteDoc_AnswerOnly(docId, userId) ==
  LET doc == getDocById(docs, docId) IN
  /\ IF doc = <<>>
       THEN /\ Respond("deleteDoc", docId, userId, <<>>, "none", 404,
                       "INVALID_DOC", <<>>, {})
            /\ UNCHANGED <<docs, deleted>>
       ELSE IF doc[1].adminId # userId
         THEN /\ Respond("deleteDoc", docId, userId, <<>>, "none", 500,
                         "ACCESS_CHANGE_NOT_ALLOWED", <<>>, {})
              /\ UNCHANGED <<docs, deleted>>
         ELSE /\ UNCHANGED docs
              /\ deleted' = deleted \cup {docId}
              /\ Respond("deleteDoc", docId, userId, <<>>, "none", 200,
                         "", <<>>, {})
  /\ UNCHANGED <<created, users, reqs, staleWrite>>

handleDeleteDoc(docId, userId) ==
  LET doc == getDocById(docs, docId) IN
  /\ IF doc = <<>>
       THEN /\ Respond("deleteDoc", docId, userId, <<>>, "none", 404,
                       "INVALID_DOC", <<>>, {})
            /\ UNCHANGED <<docs, deleted>>
       ELSE IF doc[1].adminId # userId
         THEN /\ Respond("deleteDoc", docId, userId, <<>>, "none", 500,
                         "ACCESS_CHANGE_NOT_ALLOWED", <<>>, {})
              /\ UNCHANGED <<docs, deleted>>
         ELSE /\ docs' = deleteDoc(docs, docId)
              /\ deleted' = deleted \cup {docId}
              /\ Respond("deleteDoc", docId, userId, <<>>, "none", 200,
                         "", <<>>, {})
  /\ UNCHANGED <<created, users, reqs, staleWrite>>

\* ------------------------------------------------------ environment
\* The User Directory drops an account (the user "no longer exists").
DirectoryRemoveUser(u) ==
  /\ u \in users
  /\ users' = users \ {u}
  /\ last' = [NoRequest EXCEPT !.op = "directoryRemove", !.userId = u,
                               !.pre = docs]
  /\ UNCHANGED <<docs, created, deleted, reqs, staleWrite>>

\* ------------------------------------------------------ Spec
AddDocStep == \E u \in UserIds : handleAddDoc(u)
GetFilesStep == \E u \in UserIds : handleGetFiles(u)
GetAllUserStep ==
  \E d \in DocIds, u \in UserIds :
    LET n == IF d \in DOMAIN docs
               THEN Len(docs[d].readonly) + Len(docs[d].readWrite) ELSE 0 IN
    \E order \in CompletionOrders(n), threw \in ThrowSets(n) :
      handleGetAllUser(d, u, order, threw)
NewAccessRoleStep ==
  \E d \in DocIds, u \in UserIds, e \in Emails, r \in GrantableRoles :
    handleNewAccessRole(d, u, e, r)
RemoveRoleStep ==
  \E d \in DocIds, u \in UserIds, e \in Emails, r \in GrantableRoles :
    handleRemoveRole(d, u, e, r)
DeleteDocStep == \E d \in DocIds, u \in UserIds : handleDeleteDoc(d, u)
DirectoryStep == \E u \in UserIds : DirectoryRemoveUser(u)

Next ==
  \/ AddDocStep
  \/ GetFilesStep
  \/ GetAllUserStep
  \/ NewAccessRoleStep
  \/ RemoveRoleStep
  \/ DeleteDocStep
  \/ DirectoryStep

Spec == Init /\ [][Next]_vars

\* ------------------------------------------------------ SpecConc
\* A handler's run is cut at its awaits.  Its first step takes the request
\* and the answer of getDocById together: nothing shared is touched before
\* that answer.  The requests in flight are a bag of handler frames (two
\* requests may be alike); a request that is answered leaves the bag.

\* A request can be taken: a place is free.
CanAccept == BagCardinality(reqs) < Cardinality(Slots)

\* What a handler keeps of the fetched document object.
docRef(docId, doc) == <<[id |-> docId, adminId |-> doc[1].adminId]>>

Await(r) == SetToBag({r})

\* handleNewAccessRole / handleRemoveRole, up to the call of findUserByEmail.
AccessRole_getDocById(op, docId, userId, email, role) ==
  LET doc == getDocById(docs, docId) IN
  /\ CanAccept
  /\ reqs' =
       IF doc = <<>> \/ doc[1].adminId # userId
         THEN reqs
         ELSE reqs (+) Await(
                [pc |-> "findUserByEmail", op |-> op, docId |-> docId,
                 userId |-> userId, email |-> email, role |-> role,
                 doc |-> docRef(docId, doc), newPerson |-> <<>>])
  /\ UNCHANGED <<docs, created, users, deleted, last, staleWrite>>

NewAccessRole_getDocById(docId, userId, email, role) ==
  AccessRole_getDocById("grantRole", docId, userId, email, role)

RemoveRole_getDocById(docId, userId, email, role) ==
  AccessRole_getDocById("removeRole", docId, userId, email, role)

\* ... from the answer of findUserByEmail to the call of grantRole / removeRole.
AccessRole_findUserByEmail(r, op) ==
  LET newPerson == findUserByEmail(users, r.email) IN
  /\ BagIn(r, reqs)
  /\ r.pc = "findUserByEmail"
  /\ r.op = op
  /\ reqs' =
       IF newPerson = <<>>
         THEN reqs (-) Await(r)
         ELSE (reqs (-) Await(r))
              (+) Await([r EXCEPT !.pc = "write", !.newPerson = newPerson])
  /\ UNCHANGED <<docs, created, users, deleted, last, staleWrite>>

NewAccessRole_findUserByEmail(r) == AccessRole_findUserByEmail(r, "grantRole")

RemoveRole_findUserByEmail(r) == AccessRole_findUserByEmail(r, "removeRole")

\* Mutant of NewAccessRole_grantRole: the write saves the fetched document
\* object as an upsert, inserting it again when the store no longer has it.
NewAccessRole_grantRole_Upsert(r) ==
  LET base == IF r.docId \in DOMAIN docs
                THEN docs
                ELSE addDoc(docs, r.doc[1].id, r.doc[1].adminId)
  IN
  /\ BagIn(r, reqs)
  /\ r.pc = "write"
  /\ r.op = "grantRole"
  /\ r.docId \in DOMAIN docs =>
       Len(roleArray(docs[r.docId], r.role)) < MaxRoleLen
  /\ docs' = grantRole(base, r.doc[1].id, r.newPerson[1], r.role)
  /\ staleWrite' = IF r.docId \in deleted THEN staleWrite \cup {r.op} ELSE staleWrite
  /\ reqs' = reqs (-) Await(r)
  /\ UNCHANGED <<created, users, deleted, last>>

\* await grantRole(doc, newPerson._id, role), then the 200 response.
NewAccessRole_grantRole(r) ==
  /\ BagIn(r, reqs)
  /\ r.pc = "write"
  /\ r.op = "grantRole"
  /\ r.docId \in DOMAIN docs =>
       Len(roleArray(docs[r.docId], r.role)) < MaxRoleLen
  /\ docs' = grantRole(docs, r.doc[1].id, r.newPerson[1], r.role)
  /\ staleWrite' = IF r.docId \in deleted THEN staleWrite \cup {r.op} ELSE staleWrite
  /\ reqs' = reqs (-) Await(r)
  /\ UNCHANGED <<created, users, deleted, last>>

\* await removeRole(doc, newPerson.id, role), then the 200 response.
RemoveRole_removeRole(r) ==
  /\ BagIn(r, reqs)
  /\ r.pc = "write"
  /\ r.op = "removeRole"
  /\ docs' = removeRole(docs, r.doc[1].id, r.newPerson[1], r.role)
  /\ staleWrite' = IF r.docId \in deleted THEN staleWrite \cup {r.op} ELSE staleWrite
  /\ reqs' = reqs (-) Await(r)
  /\ UNCHANGED <<created, users, deleted, last>>

\* handleDeleteDoc, up to the call of deleteDoc.
DeleteDoc_getDocById(docId, userId) ==
  LET doc == getDocById(docs, docId) IN
  /\ CanAccept
  /\ reqs' =
       IF doc = <<>> \/ doc[1].adminId # userId
         THEN reqs
         ELSE reqs (+) Await(
                [pc |-> "deleteDoc", op |-> "deleteDoc", docId |-> docId,
                 userId |-> userId, email |-> <<>>, role |-> "none",
                 doc |-> docRef(docId, doc), newPerson |-> <<>>])
  /\ UNCHANGED <<docs, created, users, deleted, last, staleWrite>>

\* await deleteDoc(docId), then the 200 response.
DeleteDoc_deleteDoc(r) ==
  /\ BagIn(r, reqs)
  /\ r.pc = "deleteDoc"
  /\ docs' = deleteDoc(docs, r.docId)
  /\ deleted' = deleted \cup {r.docId}
  /\ reqs' = reqs (-) Await(r)
  /\ UNCHANGED <<created, users, last, staleWrite>>

NewAccessRoleStart ==
  \E d \in DocIds, u \in UserIds, e \in Emails, r \in GrantableRoles :
    NewAccessRole_getDocById(d, u, e, r)
RemoveRoleStart ==
  \E d \in DocIds, u \in UserIds, e \in Emails, r \in GrantableRoles :
    RemoveRole_getDocById(d, u, e, r)
DeleteDocStart ==
  \E d \in DocIds, u \in UserIds : DeleteDoc_getDocById(d, u)

NextConc ==
  \/ AddDocStep
  \/ NewAccessRoleStart
  \/ RemoveRoleStart
  \/ DeleteDocStart
  \/ \E r \in BagToSet(reqs) : NewAccessRole_findUserByEmail(r)
  \/ \E r \in BagToSet(reqs) : RemoveRole_findUserByEmail(r)
  \/ \E r \in BagToSet(reqs) : NewAccessRole_grantRole(r)
  \/ \E r \in BagToSet(reqs) : RemoveRole_removeRole(r)
  \/ \E r \in BagToSet(reqs) : DeleteDoc_deleteDoc(r)

SpecConc == Init /\ [][NextConc]_vars

\* ================================================================ claims
AccessOps == {"grantRole", "removeRole", "deleteDoc"}

\* The user a request's e-mail resolved to when it was served.  (A change
\* of the directory replaces `last`, so `users` is the directory the last
\* request saw.)
Grantee == findUserByEmail(users, last.email)

\* The last request addressed an existing document.
OnExistingDoc == last.docId \in DOMAIN last.pre

ByOwner == OnExistingDoc /\ last.pre[last.docId].adminId = last.userId

\* C1: a grantRole, removeRole or deleteDocument request on an existing
\* document by a requester who is not its owner is answered with the
\* Unauthorized outcome, response code 403 (not 500, not 404).
C1_NonOwnerGets403 ==
  (last.op \in AccessOps /\ OnExistingDoc /\ ~ByOwner) => last.status = 403

\* C2: a grantRole, removeRole or deleteDocument request that fails
\* (document missing, requester not the owner, e-mail not registered) leaves
\* the store as it was; the store is changed only by a request of the owner
\* of the document it changes, and only in that document.
C2_FailureLeavesStoreUnchanged ==
  last.op \in AccessOps =>
    /\ last.status # 200 => docs = last.pre
    /\ ~OnExistingDoc => (last.status = 404 /\ docs = last.pre)
    /\ (OnExistingDoc /\ ~ByOwner) => (last.status # 200 /\ docs = last.pre)
    /\ (last.op # "deleteDoc" /\ Grantee = <<>>) =>
         (last.status # 200 /\ docs = last.pre)
    /\ docs # last.pre =>
         /\ ByOwner
         /\ \A d \in DOMAIN last.pre \ {last.docId} :
              d \in DOMAIN docs /\ docs[d] = last.pre[d]

C2_Witness ==
  /\ last.op = "grantRole"
  /\ OnExistingDoc
  /\ ~ByOwner
  /\ Grantee # <<>>
  /\ last.status # 200
  /\ last.pre[last.docId].readonly # <<>>

\* The effective role as documented: ownership first, then the read-only
\* set, then the read-write set.
documentedRole(doc, userId) ==
  IF doc.adminId = userId THEN Admin
  ELSE IF includes(doc.readonly, userId) THEN readOnly
  ELSE readWrite

\* C3: listVisibleDocuments of a document's owner returns the document with
\* role Admin, and every returned entry carries the role: Admin for the
\* owner, else readOnly for a member of the read-only set, else readWrite.
C3_OwnerListedAsAdmin ==
  last.op = "getFiles" =>
    /\ \A d \in DOMAIN docs :
         docs[d].adminId = last.userId =>
           [docId |-> d, role |-> Admin] \in last.result
    /\ \A e \in last.result :
         e.role = documentedRole(docs[e.docId], last.userId)

\* C4: the owner of a document is in neither of its role sets.
C4_OwnerNotInRoleSets ==
  \A d \in DOMAIN docs :
    /\ ~includes(docs[d].readonly, docs[d].adminId)
    /\ ~includes(docs[d].readWrite, docs[d].adminId)

\* C5: no user is in both role sets of a document.
C5_AtMostOneRoleSet ==
  \A d \in DOMAIN docs : \A u \in UserIds :
    ~(includes(docs[d].readonly, u) /\ includes(docs[d].readWrite, u))

\* C6: right after a successful grantRole of readOnly to user U on document
\* D, listVisibleDocuments(U) returns D with role readOnly, whatever roles
\* U held on D before.
C6_GrantReadOnlyThenListed ==
  (last.op = "grantRole" /\ last.status = 200 /\ last.role = readOnly) =>
    [docId |-> last.docId, role |-> readOnly] \in filesData(docs, Grantee[1])

C6_Witness ==
  /\ last.op = "grantRole"
  /\ last.status = 200
  /\ last.role = readOnly
  /\ includes(last.pre[last.docId].readWrite, Grantee[1])
  /\ ~includes(last.pre[last.docId].readonly, Grantee[1])

\* C7: removeRole by the owner for a registered user who is not in the
\* named role set answers success and leaves both role sets as they were.
C7_RemoveAbsentIsNoOp ==
  ( /\ last.op = "removeRole"
    /\ ByOwner
    /\ Grantee # <<>>
    /\ ~includes(roleArray(last.pre[last.docId], last.role), Grantee[1]) )
  => (last.status = 200 /\ docs = last.pre)

C7_Witness ==
  /\ last.op = "removeRole"
  /\ ByOwner
  /\ Grantee # <<>>
  /\ last.role = readOnly
  /\ ~includes(last.pre[last.docId].readonly, Grantee[1])
  /\ includes(last.pre[last.docId].readWrite, Grantee[1])
  /\ last.status = 200

\* The e-mail documented for the entry at index i of the merged list.
documentedEmail(id, i) ==
  IF id \in users /\ i \notin last.threw THEN EmailOf(id) ELSE NoUserEmail

\* C8: listRoleAssignments by the owner succeeds and returns one entry per
\* element of the read-only array (tagged readOnly) followed by one per
\* element of the read-write array (tagged readWrite), in that order
\* whatever the order the lookups complete in; an entry carries the user's
\* e-mail, or "User not found" when its lookup finds nobody or throws.
C8_RoleAssignmentsInMergedOrder ==
  (last.op = "getAllUser" /\ ByOwner) =>
    LET ro == last.pre[last.docId].readonly
        rw == last.pre[last.docId].readWrite
    IN
    /\ last.status = 200
    /\ Len(last.result) = Len(ro) + Len(rw)
    /\ \A i \in 1..Len(ro) :
         last.result[i] =
           [role |-> readOnly, email |-> documentedEmail(ro[i], i)]
    /\ \A j \in 1..Len(rw) :
         last.result[Len(ro) + j] =
           [role |-> readWrite, email |-> documentedEmail(rw[j], Len(ro) + j)]

\* Lookups completing out of order, one throwing, one finding nobody, one
\* finding its user.
C8_Witness ==
  /\ last.op = "getAllUser"
  /\ last.status = 200
  /\ Len(last.result) >= 3
  /\ last.order # [i \in 1..Len(last.result) |-> i]
  /\ last.threw # {}
  /\ \E i \in 1..Len(last.result) :
       i \notin last.threw /\ last.result[i].email = NoUserEmail
  /\ \E i \in 1..Len(last.result) : last.result[i].email # NoUserEmail
  /\ last.pre[last.docId].readonly # <<>>
  /\ last.pre[last.docId].readWrite # <<>>

\* C9: once deleteDocument(D) was answered with success, getDocument(D)
\* finds nothing and every later grantRole, removeRole, listRoleAssignments
\* or deleteDocument on D is answered 404.
C9_DeletedStaysNotFound ==
  \A d \in deleted :
    /\ getDocById(docs, d) = <<>>
    /\ (last.docId = d /\ last.op \in AccessOps \cup {"getAllUser"}) =>
         \/ last.status = 404
         \/ last.op = "deleteDoc" /\ last.status = 200 /\ ByOwner

C9_Witness ==
  /\ last.docId \in deleted
  /\ last.op = "grantRole"
  /\ last.status = 404
  /\ Grantee # <<>>

====
